---------------------------- MODULE Spec2Model ----------------------------
(***************************************************************************)
(* A model of package MyLog (src/log.go, lines 1..296): the process-wide   *)
(* logger, its buffered channel, the outPut goroutine that drains it, the  *)
(* once-only file open in handleLogMsg and the prefix formatter.           *)
(*                                                                         *)
(* Strings are sequences of one-character strings, so that concatenation,  *)
(* len() and the %s / %d verbs of fmt.Sprintf are computed, not assumed.   *)
(***************************************************************************)
EXTENDS Naturals, Sequences, FiniteSets, TLC

(***************************************************************************)
(* Bounds of the model.                                                    *)
(***************************************************************************)
\* number of goroutines that call the emit functions
NumProducers == 2
\* total number of emit calls made in one behaviour
MaxEmits == 3
\* capacity of the channel: make(chan *logMsg, 1000) scaled down so that a
\* full channel with a blocked sender is reached
ChanCap == 2

Producers == 1..NumProducers

(***************************************************************************)
(* Constants of the package.                                               *)
(***************************************************************************)
DEBUG == 0
INFO == 1
WARNING == 2
ERROR == 3
FATAL == 4

Levels == {DEBUG, INFO, WARNING, ERROR, FATAL}

\* a & b on uint8 operands, bit by bit
RECURSIVE BitAndN(_, _, _)
BitAndN(a, b, n) ==
    IF n = 0 THEN 0
    ELSE (IF a % 2 = 1 /\ b % 2 = 1 THEN 1 ELSE 0)
         + 2 * BitAndN(a \div 2, b \div 2, n - 1)

BitAnd(a, b) == BitAndN(a, b, 8)

\* a | b on uint8 operands
RECURSIVE BitOrN(_, _, _)
BitOrN(a, b, n) ==
    IF n = 0 THEN 0
    ELSE (IF a % 2 = 1 \/ b % 2 = 1 THEN 1 ELSE 0)
         + 2 * BitOrN(a \div 2, b \div 2, n - 1)

BitOr(a, b) == BitOrN(a, b, 8)

\* OutputType: iota starts at 0, so ONLY_TERMINAL is 0 and ONLY_FILE is 1
ONLY_TERMINAL == 0
ONLY_FILE == 1
BOTH_TERMINAL_AND_FILE == BitOr(ONLY_TERMINAL, ONLY_FILE)

OutputTypes == {ONLY_TERMINAL, ONLY_FILE, BOTH_TERMINAL_AND_FILE}

LOG_NONE == 0
LOG_TIME == 1
LOG_LEVEL == 2
LOG_FILENAME == 4
LOG_FUNCNAME == 8
LOG_LINENO == 16
LOG_ALL == 31

\* every value a LogFlag built from the declared bits can take
AllFlags == 0..31

(***************************************************************************)
(* Strings.                                                                *)
(***************************************************************************)
Digits == <<"0", "1", "2", "3", "4", "5", "6", "7", "8", "9">>

\* the %d verb on a non-negative int
RECURSIVE Itoa(_)
Itoa(n) ==
    IF n < 10 THEN <<Digits[n + 1]>>
    ELSE Itoa(n \div 10) \o <<Digits[(n % 10) + 1]>>

\* variant of LevelStr: the level names without the padding
LevelStrTrimmed(level) ==
    CASE level = DEBUG   -> <<"D", "E", "B", "U", "G">>
      [] level = INFO    -> <<"I", "N", "F", "O">>
      [] level = WARNING -> <<"W", "A", "R", "N", "I", "N", "G">>
      [] level = ERROR   -> <<"E", "R", "R", "O", "R">>
      [] level = FATAL   -> <<"F", "A", "T", "A", "L">>
      [] OTHER           -> <<>>

\* Logger.LevelStr as built by getInstance
LevelStr(level) ==
    CASE level = DEBUG   -> <<"D", "E", "B", "U", "G", " ", " ">>
      [] level = INFO    -> <<"I", "N", "F", "O", " ", " ", " ">>
      [] level = WARNING -> <<"W", "A", "R", "N", "I", "N", "G">>
      [] level = ERROR   -> <<"E", "R", "R", "O", "R", " ", " ">>
      [] level = FATAL   -> <<"F", "A", "T", "A", "L", " ", " ">>
      [] OTHER           -> <<>>

\* path.Split(p): the part of p after its last "/"
RECURSIVE PathBase(_)
PathBase(p) ==
    IF p = <<>> THEN <<>>
    ELSE IF p[Len(p)] = "/" THEN <<>>
    ELSE PathBase(SubSeq(p, 1, Len(p) - 1)) \o <<p[Len(p)]>>

\* strings.Join(strings.Split(s, ".")[1:], ""): s without its first
\* "."-separated field and without any "."
RECURSIVE DropDots(_)
DropDots(s) ==
    IF s = <<>> THEN <<>>
    ELSE IF Head(s) = "." THEN DropDots(Tail(s))
    ELSE <<Head(s)>> \o DropDots(Tail(s))

RECURSIVE AfterFirstDot(_)
AfterFirstDot(s) ==
    IF s = <<>> THEN <<>>
    ELSE IF Head(s) = "." THEN DropDots(Tail(s))
    ELSE AfterFirstDot(Tail(s))

\* what runtime.Caller(3) and runtime.FuncForPC(pc).Name() can return
RawCallers ==
    { [ok |-> TRUE,
       file |-> <<"/", "w", "/", "b", ".", "g", "o">>,
       func |-> <<"m", ".", "F", "o", "o">>,
       line |-> 42],
      [ok |-> TRUE,
       file |-> <<"m", ".", "g", "o">>,
       func |-> <<"m", ".", "T", ".", "R">>,
       line |-> 7],
      [ok |-> TRUE,
       file |-> <<"/", "a", "/", "c", "/", "d", ".", "g", "o">>,
       func |-> <<"p", ".", "G">>,
       line |-> 305],
      [ok |-> FALSE, file |-> <<>>, func |-> <<>>, line |-> 0] }

getFuncCallerInfo(raw) ==
    [fileName |-> PathBase(raw.file),
     funcName |-> AfterFirstDot(raw.func),
     lineNo   |-> raw.line]

\* time.Now().Format("2006-01-02 15:04:05"), shortened
Times == { <<"0", "9", ":", "0", "5">> }

\* fmt.Sprint(msg) of the values passed to the emit functions
Messages == { <<"x">> }

(***************************************************************************)
(* formatPrefix: the prefix rendered from the flags and a record.          *)
(***************************************************************************)
HasFlag(flags, f) == BitAnd(flags, f) = f

\* variant of FixedLayout: the layout without the file name and without the
\* space before the message
FixedLayoutV1(log) ==
    <<"[">> \o log.time \o <<"]", " ", "[">> \o LevelStr(log.level)
        \o <<"]", " ", "[">> \o log.funcName
        \o <<" ", "l", "i", "n", "e">> \o Itoa(log.lineNo)
        \o <<"]">>

\* the fmt.Sprintf of the LOG_ALL branch
FixedLayout(log) ==
    <<"[">> \o log.time \o <<"]", " ", "[">> \o LevelStr(log.level)
        \o <<"]", " ", "[">> \o log.fileName \o <<" ">> \o log.funcName
        \o <<"(", ")", " ", "l", "i", "n", "e">> \o Itoa(log.lineNo)
        \o <<"]", " ">>

\* variant of TimeLevelPart: no space is added after the group
TimeLevelPartNoSpace(flags, log) ==
    LET p1 == IF HasFlag(flags, LOG_TIME)
              THEN <<"[">> \o log.time \o <<"]">>
              ELSE <<>>
    IN  IF HasFlag(flags, LOG_LEVEL)
        THEN IF Len(p1) > 0
             THEN p1 \o <<" ">> \o <<"[">> \o LevelStr(log.level) \o <<"]">>
             ELSE p1 \o <<"[">> \o LevelStr(log.level) \o <<"]">>
        ELSE p1

\* prefix after the LOG_TIME and LOG_LEVEL tests and the trailing space
TimeLevelPart(flags, log) ==
    LET p1 == IF HasFlag(flags, LOG_TIME)
              THEN <<"[">> \o log.time \o <<"]">>
              ELSE <<>>
        p2 == IF HasFlag(flags, LOG_LEVEL)
              THEN IF Len(p1) > 0
                   THEN p1 \o <<" ">> \o <<"[">> \o LevelStr(log.level) \o <<"]">>
                   ELSE p1 \o <<"[">> \o LevelStr(log.level) \o <<"]">>
              ELSE p1
    IN  IF Len(p2) > 0 THEN p2 \o <<" ">> ELSE p2

\* funcInfo after the LOG_FUNCNAME test: with a non-empty funcInfo the
\* source ASSIGNS (funcInfo = " " + ...), it does not append
FuncNameStep(funcInfo, log) ==
    IF Len(funcInfo) > 0
    THEN <<" ">> \o log.funcName \o <<"(", ")">>
    ELSE funcInfo \o log.funcName \o <<"(", ")">>

\* funcInfo after the three caller tests and the bracket wrapping
FuncInfoPart(flags, log) ==
    LET f1 == IF HasFlag(flags, LOG_FILENAME) THEN log.fileName ELSE <<>>
        f2 == IF HasFlag(flags, LOG_FUNCNAME) THEN FuncNameStep(f1, log) ELSE f1
        f3 == IF HasFlag(flags, LOG_LINENO)
              THEN IF Len(f2) > 0
                   THEN f2 \o <<" ">> \o <<"l", "i", "n", "e">> \o Itoa(log.lineNo)
                   ELSE f2 \o <<"l", "i", "n", "e">> \o Itoa(log.lineNo)
              ELSE f2
    IN  IF Len(f3) > 0 THEN <<"[">> \o f3 \o <<"]", " ">> ELSE f3

\* variant of formatPrefix: the LOG_NONE and LOG_ALL tests exchanged
formatPrefixSwapped(flags, log) ==
    IF flags = LOG_ALL THEN <<>>
    ELSE IF flags = LOG_NONE THEN FixedLayout(log)
    ELSE TimeLevelPart(flags, log) \o FuncInfoPart(flags, log)

formatPrefix(flags, log) ==
    IF flags = LOG_NONE THEN <<>>
    ELSE IF flags = LOG_ALL THEN FixedLayout(log)
    ELSE TimeLevelPart(flags, log) \o FuncInfoPart(flags, log)

\* content = logger.formatPrefix(*log) + log.msg
Render(flags, log) == formatPrefix(flags, log) \o log.msg

(***************************************************************************)
(* The state of the process.                                               *)
(***************************************************************************)
VARIABLES
    OutputType,  \* logger.OutputType
    Flags,       \* logger.Flags
    fileName,    \* logger.fileName
    fileObj,     \* logger.fileObj: NoFile (nil) or the file it was opened on
    msg,         \* logger.msg: the records buffered in the channel
    once2,       \* sync.Once of the file open: "new", "running" or "done"
    pc,          \* where each producer goroutine is inside an emit call
    arg,         \* the (level, msg) of the emit call each producer is in
    drainPc,     \* where the outPut goroutine is ("off": never started)
    log,         \* outPut's log: the record received last
    content,     \* outPut's content
    console,     \* ids of the records printed on standard output, in order
    fileOut,     \* (id, file) of the records written to a file, in order
    enq,         \* ids of the records in the order they entered the channel
    emits,       \* number of emit calls made so far
    openCalls,   \* number of os.OpenFile calls executed
    openErrs,    \* number of "open file failed" reports printed
    writeErrs,   \* number of reports of a failed write printed
    logger,      \* the package variable logger: "nil" or the instance "ptr"
    once1,       \* state of the sync.Once that guards the construction
    built,       \* number of times the function given to once1.Do has run
    gpc,         \* where each caller of getInstance is inside the call
    ret,         \* what each call of getInstance returned
    probe        \* input and output of a stand-alone formatPrefix call

vars == <<OutputType, Flags, fileName, fileObj, msg, once2, pc, arg,
          drainPc, log, content, console, fileOut, enq, emits, openCalls,
          openErrs, writeErrs, logger, once1, built, gpc, ret, probe>>

config == <<OutputType, Flags, fileName>>
producerVars == <<pc, arg, emits>>
drainVars == <<drainPc, log, content, console, fileOut>>
openVars == <<fileObj, once2, openCalls, openErrs>>
instVars == <<logger, once1, built, gpc, ret>>

NoFile == "nil"
NoRec == [id |-> 0]
NoArg == [level |-> 255]
NoProbe == [state |-> "unused"]

\* names SetFileName is called with, besides the default of getInstance
FileNames == {"test.log", "b.log"}

\* flag values SetFlags is called with
FlagChoices == {LOG_NONE, LOG_ALL}

\* the workload: the levels each producer goroutine logs at (every emit
\* function is called by some goroutine) and the call site it logs from
LevelsOf(p) == IF p % 2 = 1 THEN {DEBUG, INFO, WARNING} ELSE {ERROR, FATAL}

CallerOf(p) ==
    CHOOSE raw \in RawCallers :
        raw.ok /\ raw.line = (IF p % 2 = 1 THEN 42 ELSE 7)

(***************************************************************************)
(* getInstance and init: the logger as the package initialiser leaves it.  *)
(* outPut is started unless os.Getwd fails.                                *)
(***************************************************************************)
getInstance ==
    /\ OutputType = BOTH_TERMINAL_AND_FILE
    /\ Flags = LOG_ALL
    /\ fileName = "test.log"
    /\ fileObj = NoFile
    /\ msg = <<>>

\* bound: the goroutines that call getInstance at the same time
NumCallers == 3

Callers == 1..NumCallers

NoRet == [logger |-> "none"]

\* init has called getInstance and the call has returned; nothing else
\* calls it
InitCall ==
    /\ logger = "ptr"
    /\ once1 = "done"
    /\ built = 1
    /\ gpc = [c \in Callers |-> IF c = 1 THEN "done" ELSE "idle"]
    /\ ret = [c \in Callers |->
                IF c = 1 THEN [logger |-> "ptr", fields |-> "set"] ELSE NoRet]

Init ==
    /\ getInstance
    /\ InitCall
    /\ writeErrs = 0
    /\ once2 = "new"
    /\ pc = [p \in Producers |-> "idle"]
    /\ arg = [p \in Producers |-> NoArg]
    /\ drainPc \in {"off", "select"}
    /\ log = NoRec
    /\ content = <<>>
    /\ console = <<>>
    /\ fileOut = <<>>
    /\ enq = <<>>
    /\ emits = 0
    /\ openCalls = 0
    /\ openErrs = 0
    /\ probe = NoProbe

(***************************************************************************)
(* The setters.                                                            *)
(***************************************************************************)
SetOutputType(outputType) ==
    /\ OutputType' = outputType
    /\ UNCHANGED <<Flags, fileName, msg, enq, probe, writeErrs, instVars>>
    /\ UNCHANGED <<producerVars, drainVars, openVars>>

SetFlags(flags) ==
    /\ Flags' = flags
    /\ UNCHANGED <<OutputType, fileName, msg, enq, probe, writeErrs, instVars>>
    /\ UNCHANGED <<producerVars, drainVars, openVars>>

\* variant of SetFileName: the setter also moves an open handle to the
\* new name
SetFileNameReopen(name) ==
    /\ fileName' = name
    /\ fileObj' = IF fileObj # NoFile THEN name ELSE fileObj
    /\ UNCHANGED <<OutputType, Flags, msg, enq, probe, writeErrs, instVars>>
    /\ UNCHANGED <<producerVars, drainVars, once2, openCalls, openErrs>>

SetFileName(name) ==
    /\ fileName' = name
    /\ UNCHANGED <<OutputType, Flags, msg, enq, probe, writeErrs, instVars>>
    /\ UNCHANGED <<producerVars, drainVars, openVars>>

(***************************************************************************)
(* The emit functions: each calls handleLogMsg with its level.  Once the   *)
(* gate is done, once2.Do returns at once (its fast path), and the call    *)
(* goes straight on to build and send its record.                          *)
(***************************************************************************)
\* variant of Call: a call below WARNING returns at once, without a record
CallFiltered(p, level, m) ==
    /\ pc[p] = "idle"
    /\ emits < MaxEmits
    /\ level \in LevelsOf(p)
    /\ emits' = emits + 1
    /\ pc' = [pc EXCEPT ![p] = IF level < WARNING THEN "idle"
                              ELSE IF once2 = "done" THEN "send" ELSE "once"]
    /\ arg' = [arg EXCEPT ![p] = IF level < WARNING THEN NoArg
                                ELSE [level |-> level, msg |-> m]]
    /\ UNCHANGED <<config, msg, enq, probe, writeErrs, instVars, drainVars, openVars>>

Call(p, level, m) ==
    /\ pc[p] = "idle"
    /\ emits < MaxEmits
    /\ level \in LevelsOf(p)
    /\ emits' = emits + 1
    /\ pc' = [pc EXCEPT ![p] = IF once2 = "done" THEN "send" ELSE "once"]
    /\ arg' = [arg EXCEPT ![p] = [level |-> level, msg |-> m]]
    /\ UNCHANGED <<config, msg, enq, probe, writeErrs, instVars, drainVars, openVars>>

Info(p, m) == Call(p, INFO, m)
Debug(p, m) == Call(p, DEBUG, m)
Warning(p, m) == Call(p, WARNING, m)
Fatal(p, m) == Call(p, FATAL, m)
Error(p, m) == Call(p, ERROR, m)

(***************************************************************************)
(* handleLogMsg.                                                           *)
(***************************************************************************)
\* variant of OncePass: once2.Do returns to a caller that came while the
\* function runs, without waiting for it to end
OncePassEarly(p) ==
    /\ pc[p] = "once"
    /\ once2 \in {"running", "done"}
    /\ pc' = [pc EXCEPT ![p] = "send"]
    /\ UNCHANGED <<arg, emits, config, msg, enq, probe, writeErrs, instVars, drainVars, openVars>>

\* once2.Do returns to a caller that waited for the gate: the function is
\* not run again
OncePass(p) ==
    /\ pc[p] = "once"
    /\ once2 = "done"
    /\ pc' = [pc EXCEPT ![p] = "send"]
    /\ UNCHANGED <<arg, emits, config, msg, enq, probe, writeErrs, instVars, drainVars, openVars>>

\* variant of OnceEnter: a test of the gate that is not atomic with its
\* closing, so that a caller arriving while the function runs enters too
OnceEnterUnguarded(p) ==
    /\ pc[p] = "once"
    /\ once2 \in {"new", "running"}
    /\ IF BitAnd(OutputType, ONLY_FILE) = ONLY_FILE
       THEN /\ once2' = "running"
            /\ pc' = [pc EXCEPT ![p] = "open"]
       ELSE /\ once2' = "done"
            /\ pc' = [pc EXCEPT ![p] = "send"]
    /\ UNCHANGED <<fileObj, openCalls, openErrs>>
    /\ UNCHANGED <<arg, emits, config, msg, enq, probe, writeErrs, instVars, drainVars>>

\* once2.Do by the first caller: it runs the function, which tests
\* l.OutputType&ONLY_FILE; callers arriving meanwhile wait in Do
OnceEnter(p) ==
    /\ pc[p] = "once"
    /\ once2 = "new"
    /\ IF BitAnd(OutputType, ONLY_FILE) = ONLY_FILE
       THEN /\ once2' = "running"
            /\ pc' = [pc EXCEPT ![p] = "open"]
       ELSE /\ once2' = "done"
            /\ pc' = [pc EXCEPT ![p] = "send"]
    /\ UNCHANGED <<fileObj, openCalls, openErrs>>
    /\ UNCHANGED <<arg, emits, config, msg, enq, probe, writeErrs, instVars, drainVars>>

\* variant of OpenFile: a failed open leaves the gate open, so that the
\* next pass through it tries again
OpenFileRetry(p, ok) ==
    /\ pc[p] = "open"
    /\ openCalls' = openCalls + 1
    /\ IF ok
       THEN /\ fileObj' = fileName
            /\ openErrs' = openErrs
            /\ once2' = "done"
            /\ pc' = [pc EXCEPT ![p] = "send"]
       ELSE /\ fileObj' = fileObj
            /\ openErrs' = openErrs + 1
            /\ once2' = "new"
            /\ pc' = [pc EXCEPT ![p] = "once"]
    /\ UNCHANGED <<arg, emits, config, msg, enq, probe, writeErrs, instVars, drainVars>>

\* os.OpenFile(path.Join(filePath, fileName), O_CREATE|O_WRONLY|O_APPEND):
\* on an error it is reported and fileObj stays nil
OpenFile(p, ok) ==
    /\ pc[p] = "open"
    /\ openCalls' = openCalls + 1
    /\ IF ok
       THEN /\ fileObj' = fileName
            /\ openErrs' = openErrs
       ELSE /\ fileObj' = fileObj
            /\ openErrs' = openErrs + 1
    /\ once2' = "done"
    /\ pc' = [pc EXCEPT ![p] = "send"]
    /\ UNCHANGED <<arg, emits, config, msg, enq, probe, writeErrs, instVars, drainVars>>

\* log := &logMsg{...}: level, fmt.Sprint(msg), time.Now() and the caller
\* information.  id stands for the identity of the pointer: records are
\* numbered in the order they enter the channel.
NewLogMsg(p, t) ==
    LET info == getFuncCallerInfo(CallerOf(p))
    IN  [id       |-> Len(enq) + 1,
         level    |-> arg[p].level,
         msg      |-> arg[p].msg,
         time     |-> t,
         fileName |-> info.fileName,
         funcName |-> info.funcName,
         lineNo   |-> info.lineNo]

\* variant of Send: a send that does not wait, and gives the record up when
\* the channel is full
SendDrop(p, t) ==
    /\ pc[p] = "send"
    /\ IF Len(msg) < ChanCap
       THEN /\ msg' = Append(msg, NewLogMsg(p, t))
            /\ enq' = Append(enq, Len(enq) + 1)
       ELSE UNCHANGED <<msg, enq>>
    /\ pc' = [pc EXCEPT ![p] = "idle"]
    /\ arg' = [arg EXCEPT ![p] = NoArg]
    /\ UNCHANGED <<emits, config, probe, writeErrs, instVars, drainVars, openVars>>

\* variant of Send: a send that does not wait for room in the channel
SendUnbounded(p, t) ==
    /\ pc[p] = "send"
    /\ msg' = Append(msg, NewLogMsg(p, t))
    /\ enq' = Append(enq, Len(enq) + 1)
    /\ pc' = [pc EXCEPT ![p] = "idle"]
    /\ arg' = [arg EXCEPT ![p] = NoArg]
    /\ UNCHANGED <<emits, config, probe, writeErrs, instVars, drainVars, openVars>>

\* the record is built and l.msg <- log puts it in the channel; the send
\* blocks while the channel holds ChanCap records
Send(p, t) ==
    /\ pc[p] = "send"
    /\ Len(msg) < ChanCap
    /\ msg' = Append(msg, NewLogMsg(p, t))
    /\ enq' = Append(enq, Len(enq) + 1)
    /\ pc' = [pc EXCEPT ![p] = "idle"]
    /\ arg' = [arg EXCEPT ![p] = NoArg]
    /\ UNCHANGED <<emits, config, probe, writeErrs, instVars, drainVars, openVars>>

(***************************************************************************)
(* outPut: the goroutine that drains the channel.                          *)
(***************************************************************************)
\* variant of Recv: the record taken is the newest one in the channel
RecvLast ==
    /\ drainPc = "select"
    /\ msg # <<>>
    /\ log' = msg[Len(msg)]
    /\ msg' = SubSeq(msg, 1, Len(msg) - 1)
    /\ content' = Render(Flags, msg[Len(msg)])
    /\ drainPc' = "term"
    /\ UNCHANGED <<console, fileOut, enq, config, probe, writeErrs, instVars, producerVars, openVars>>

\* variant of Recv: the record is rendered with the flags getInstance set
RecvDefaultFlags ==
    /\ drainPc = "select"
    /\ msg # <<>>
    /\ log' = Head(msg)
    /\ msg' = Tail(msg)
    /\ content' = Render(LOG_ALL, Head(msg))
    /\ drainPc' = "term"
    /\ UNCHANGED <<console, fileOut, enq, config, probe, writeErrs, instVars, producerVars, openVars>>

\* case log := <-logger.msg, then content = formatPrefix(*log) + log.msg
Recv ==
    /\ drainPc = "select"
    /\ msg # <<>>
    /\ log' = Head(msg)
    /\ msg' = Tail(msg)
    /\ content' = Render(Flags, Head(msg))
    /\ drainPc' = "term"
    /\ UNCHANGED <<console, fileOut, enq, config, probe, writeErrs, instVars, producerVars, openVars>>

\* default: break, taken when the channel is empty
Default ==
    /\ drainPc = "select"
    /\ msg = <<>>
    /\ drainPc' = "default"
    /\ UNCHANGED <<log, content, console, fileOut>>
    /\ UNCHANGED <<msg, enq, config, probe, writeErrs, instVars, producerVars, openVars>>

\* the for loop comes back to the select
Loop ==
    /\ drainPc = "default"
    /\ drainPc' = "select"
    /\ UNCHANGED <<log, content, console, fileOut>>
    /\ UNCHANGED <<msg, enq, config, probe, writeErrs, instVars, producerVars, openVars>>

\* if logger.OutputType&ONLY_TERMINAL == ONLY_TERMINAL { fmt.Println(content) }
WriteTerminal ==
    /\ drainPc = "term"
    /\ IF BitAnd(OutputType, ONLY_TERMINAL) = ONLY_TERMINAL
       THEN console' = Append(console, log.id)
       ELSE console' = console
    /\ drainPc' = "file"
    /\ UNCHANGED <<log, content, fileOut>>
    /\ UNCHANGED <<msg, enq, config, probe, writeErrs, instVars, producerVars, openVars>>

\* fmt.Fprintln(logger.fileObj, content): Write on a nil *os.File returns
\* ErrInvalid and does not panic; a write to an open file is done or fails
Fprintln(f, ok) ==
    IF f = NoFile THEN "ErrInvalid"
    ELSE IF ok THEN "written"
    ELSE "failed"

\* if logger.OutputType&ONLY_FILE == ONLY_FILE { fmt.Fprintln(logger.fileObj, content) }
\* The result of Fprintln is discarded: a failed write prints nothing and
\* writeErrs stays as it is.  log and content are dead until the next
\* receive and are cleared here.
WriteFile(ok) ==
    /\ drainPc = "file"
    /\ LET res == IF BitAnd(OutputType, ONLY_FILE) = ONLY_FILE
                  THEN Fprintln(fileObj, ok)
                  ELSE "skipped"
       IN  /\ fileOut' = IF res = "written"
                         THEN Append(fileOut, [id |-> log.id, file |-> fileObj])
                         ELSE fileOut
           /\ drainPc' = IF res = "panic" THEN "crashed" ELSE "select"
    /\ log' = NoRec
    /\ content' = <<>>
    /\ UNCHANGED console
    /\ UNCHANGED <<msg, enq, config, probe, writeErrs, instVars, producerVars, openVars>>

outPut == Recv \/ Default \/ Loop \/ WriteTerminal \/ \E ok \in BOOLEAN : WriteFile(ok)

(***************************************************************************)
(* The process: any goroutine may call a setter or an emit function.       *)
(***************************************************************************)
Next ==
    \/ \E o \in OutputTypes : SetOutputType(o)
    \/ \E f \in FlagChoices : SetFlags(f)
    \/ \E n \in FileNames : SetFileName(n)
    \/ \E p \in Producers, m \in Messages : Info(p, m)
    \/ \E p \in Producers, m \in Messages : Debug(p, m)
    \/ \E p \in Producers, m \in Messages : Warning(p, m)
    \/ \E p \in Producers, m \in Messages : Fatal(p, m)
    \/ \E p \in Producers, m \in Messages : Error(p, m)
    \/ \E p \in Producers : OncePass(p)
    \/ \E p \in Producers : OnceEnter(p)
    \/ \E p \in Producers, ok \in BOOLEAN : OpenFile(p, ok)
    \/ \E p \in Producers, t \in Times : Send(p, t)
    \/ Recv
    \/ Default
    \/ Loop
    \/ WriteTerminal
    \/ \E ok \in BOOLEAN : WriteFile(ok)

Spec == Init /\ [][Next]_vars

(***************************************************************************)
(* Scheduling: the outPut goroutine, once started, keeps running (its loop *)
(* never blocks), and while some send can proceed, a send does proceed.    *)
(***************************************************************************)
FairSpec ==
    /\ Spec
    /\ WF_vars(outPut)
    /\ WF_vars(\E p \in Producers, t \in Times : Send(p, t))

(***************************************************************************)
(* formatPrefix on its own: every flag value, level and caller.            *)
(***************************************************************************)
ProbeMessages == { <<"x">>, <<"h", "i">> }

ProbeLogs ==
    { [id       |-> 1,
       level    |-> l,
       msg      |-> m,
       time     |-> t,
       fileName |-> getFuncCallerInfo(raw).fileName,
       funcName |-> getFuncCallerInfo(raw).funcName,
       lineNo   |-> getFuncCallerInfo(raw).lineNo] :
      l \in Levels, m \in ProbeMessages, t \in Times, raw \in RawCallers }

FmtInit ==
    /\ getInstance
    /\ InitCall
    /\ writeErrs = 0
    /\ once2 = "new"
    /\ pc = [p \in Producers |-> "idle"]
    /\ arg = [p \in Producers |-> NoArg]
    /\ drainPc = "select"
    /\ log = NoRec
    /\ content = <<>>
    /\ console = <<>>
    /\ fileOut = <<>>
    /\ enq = <<>>
    /\ emits = 0
    /\ openCalls = 0
    /\ openErrs = 0
    /\ probe \in { [state |-> "in", flags |-> f, log |-> r] :
                   f \in AllFlags, r \in ProbeLogs }

\* SetFlags(probe.flags), then the rendering outPut does for probe.log
Format ==
    /\ probe.state = "in"
    /\ probe' = [state   |-> "out",
                 flags   |-> probe.flags,
                 log     |-> probe.log,
                 prefix  |-> formatPrefix(probe.flags, probe.log),
                 content |-> Render(probe.flags, probe.log)]
    /\ UNCHANGED <<config, msg, enq, producerVars, drainVars, openVars>>
    /\ UNCHANGED <<writeErrs, instVars>>

FmtNext == Format

FmtSpec == FmtInit /\ [][FmtNext]_vars

(***************************************************************************)
(* getInstance on its own, called by several goroutines at the same time   *)
(* before the instance exists.  The test logger == nil is made outside     *)
(* once1.Do, with no synchronisation: it is a data race with the           *)
(* assignment made inside once1.Do.  A racing read sees the old or the new *)
(* value of logger, and a goroutine that got the pointer from a racing     *)
(* read has no happens-before edge with the writes that filled the         *)
(* instance, so it may see the fields set or still zero.  A goroutine that *)
(* went through once1.Do is synchronised with the construction.            *)
(***************************************************************************)
InstInit ==
    /\ getInstance
    /\ logger = "nil"
    /\ once1 = "new"
    /\ built = 0
    /\ gpc = [c \in Callers |-> "check"]
    /\ ret = [c \in Callers |-> NoRet]
    /\ writeErrs = 0
    /\ once2 = "new"
    /\ pc = [p \in Producers |-> "idle"]
    /\ arg = [p \in Producers |-> NoArg]
    /\ drainPc = "off"
    /\ log = NoRec
    /\ content = <<>>
    /\ console = <<>>
    /\ fileOut = <<>>
    /\ enq = <<>>
    /\ emits = 0
    /\ openCalls = 0
    /\ openErrs = 0
    /\ probe = NoProbe

\* if logger == nil: the unsynchronised read
InstCheck(c, seen) ==
    /\ gpc[c] = "check"
    /\ seen \in {"nil", logger}
    /\ gpc' = [gpc EXCEPT ![c] = IF seen = "nil" THEN "do" ELSE "racy"]
    /\ UNCHANGED <<logger, once1, built, ret>>
    /\ UNCHANGED <<config, msg, enq, probe, writeErrs>>
    /\ UNCHANGED <<producerVars, drainVars, openVars>>

\* once1.Do: the first caller runs the function, a caller that comes while
\* it runs waits, a caller that comes after it returns at once
InstOnceDo(c) ==
    /\ gpc[c] = "do"
    /\ once1 # "running"
    /\ once1' = IF once1 = "new" THEN "running" ELSE once1
    /\ gpc' = [gpc EXCEPT ![c] = IF once1 = "new" THEN "build" ELSE "return"]
    /\ UNCHANGED <<logger, built, ret>>
    /\ UNCHANGED <<config, msg, enq, probe, writeErrs>>
    /\ UNCHANGED <<producerVars, drainVars, openVars>>

\* logger = &Logger{...}
InstConstruct(c) ==
    /\ gpc[c] = "build"
    /\ logger' = "ptr"
    /\ built' = built + 1
    /\ gpc' = [gpc EXCEPT ![c] = "unlock"]
    /\ UNCHANGED <<once1, ret>>
    /\ UNCHANGED <<config, msg, enq, probe, writeErrs>>
    /\ UNCHANGED <<producerVars, drainVars, openVars>>

\* once1.Do returns in the caller that ran the function
InstOnceDone(c) ==
    /\ gpc[c] = "unlock"
    /\ once1' = "done"
    /\ gpc' = [gpc EXCEPT ![c] = "return"]
    /\ UNCHANGED <<logger, built, ret>>
    /\ UNCHANGED <<config, msg, enq, probe, writeErrs>>
    /\ UNCHANGED <<producerVars, drainVars, openVars>>

\* return logger, and what the caller sees through the pointer
InstReturn(c, fields) ==
    /\ gpc[c] \in {"return", "racy"}
    /\ fields \in (IF gpc[c] = "return" THEN {"set"} ELSE {"set", "zero"})
    /\ ret' = [ret EXCEPT ![c] = [logger |-> logger, fields |-> fields]]
    /\ gpc' = [gpc EXCEPT ![c] = "done"]
    /\ UNCHANGED <<logger, once1, built>>
    /\ UNCHANGED <<config, msg, enq, probe, writeErrs>>
    /\ UNCHANGED <<producerVars, drainVars, openVars>>

InstNext ==
    \/ \E c \in Callers, seen \in {"nil", "ptr"} : InstCheck(c, seen)
    \/ \E c \in Callers : InstOnceDo(c)
    \/ \E c \in Callers : InstConstruct(c)
    \/ \E c \in Callers : InstOnceDone(c)
    \/ \E c \in Callers, fields \in {"set", "zero"} : InstReturn(c, fields)

InstSpec == InstInit /\ [][InstNext]_vars

(***************************************************************************)
(* Properties.                                                             *)
(***************************************************************************)
Ids(q) == [i \in DOMAIN q |-> q[i].id]

\* the record outPut has received and not yet printed
Pending == IF drainPc = "term" THEN <<log.id>> ELSE <<>>

HasPrefix(s, pre) == Len(s) >= Len(pre) /\ SubSeq(s, 1, Len(pre)) = pre
HasSuffix(s, suf) ==
    Len(s) >= Len(suf) /\ SubSeq(s, Len(s) - Len(suf) + 1, Len(s)) = suf

FileBit == BitAnd(OutputType, ONLY_FILE) = ONLY_FILE

\* producer p is in a send on a full channel
Blocked(p) == pc[p] = "send" /\ Len(msg) = ChanCap

\* C1: the records printed on the console, followed by the record being
\* printed and the records still in the channel, are exactly the records in
\* the order they entered the channel; the records written to the file are
\* among those received, in the same order and at most once each.
C1_Fifo ==
    /\ console \o Pending \o Ids(msg) = enq
    /\ \A i \in DOMAIN enq : enq[i] = i
    /\ \A i, j \in DOMAIN fileOut : i < j => fileOut[i].id < fileOut[j].id
    /\ \A i \in DOMAIN fileOut :
         \E k \in 1..(Len(enq) - Len(msg)) : enq[k] = fileOut[i].id

\* two records of different goroutines wait in the channel behind a record
\* that was printed and written to the file
C1_Witness ==
    /\ Len(msg) = 2
    /\ msg[1].lineNo # msg[2].lineNo
    /\ Len(console) >= 1
    /\ Len(fileOut) >= 1

\* C2: a producer in a send on a full channel stays in the send with its
\* record; a send only ever completes by appending the record to a channel
\* that has room; and with outPut running the process comes again and again
\* to a state where no producer is in a send and every record that entered
\* the channel has been printed, in the order of entry (so a blocked
\* producer returns and its record is printed after those before it).
C2_Backpressure ==
    /\ [][\A p \in Producers :
            /\ Blocked(p) => (pc'[p] = "send" /\ arg'[p] = arg[p])
            /\ (pc[p] = "send" /\ pc'[p] # "send") =>
                 /\ Len(msg) < ChanCap
                 /\ Len(msg') = Len(msg) + 1
                 /\ msg'[Len(msg')].level = arg[p].level
                 /\ msg'[Len(msg')].msg = arg[p].msg
                 /\ SubSeq(msg', 1, Len(msg)) = msg]_vars
    /\ []<>(drainPc = "off" \/ (console = enq /\ \A p \in Producers : pc[p] # "send"))

\* a producer is blocked on a full channel while outPut runs
C2_Witness ==
    \E p \in Producers : Blocked(p) /\ drainPc = "select" /\ Len(enq) = ChanCap

\* C3 (as claimed): whenever outPut is about to write a record to the file
\* sink and no open has failed, the file handle is open.
C3_FileOpenWhenNeeded ==
    (drainPc = "file" /\ FileBit /\ openErrs = 0) => fileObj # NoFile

\* C4 (as claimed): a record drained under ONLY_TERMINAL goes to the console
\* and not to the file, under ONLY_FILE to the file and not to the console,
\* under BOTH_TERMINAL_AND_FILE to the console.
C4_SinksFollowTarget ==
    [][/\ (drainPc = "term" /\ drainPc' = "file") =>
            /\ OutputType = ONLY_TERMINAL => console' = Append(console, log.id)
            /\ OutputType = ONLY_FILE => console' = console
            /\ OutputType = BOTH_TERMINAL_AND_FILE => console' = Append(console, log.id)
       /\ (drainPc = "file" /\ drainPc' = "select") =>
            /\ OutputType = ONLY_TERMINAL => fileOut' = fileOut]_vars

\* C5: os.OpenFile is executed at most once; the first pass through the gate
\* with the file bit set starts the open and nobody else enters meanwhile;
\* the gate closes with exactly one open executed, and stays closed.
C5_OpenOnce ==
    [][/\ openCalls' <= 1
       /\ (once2 = "new" /\ once2' # "new" /\ FileBit) =>
            (once2' = "running" /\ openCalls' = 0)
       /\ (once2 = "running" /\ once2' # "running") =>
            (once2' = "done" /\ openCalls' = 1)
       /\ once2 = "running" =>
            Cardinality({p \in Producers : pc[p] = "open"}) = 1
       /\ once2 = "done" => (once2' = "done" /\ openCalls' = openCalls)]_vars

\* one producer runs the open while another, whose first emit came at the
\* same time, waits at the gate
C5_Witness ==
    /\ once2 = "running"
    /\ \E p, q \in Producers : pc[p] = "open" /\ pc[q] = "once"

\* C6: once the file is open no step changes the handle, whatever
\* SetFileName is called with, and every record written to a file went to
\* the file the handle was opened on.
C6_HandleKept ==
    [][/\ fileObj # NoFile => fileObj' = fileObj
       /\ \A i \in DOMAIN fileOut' : fileOut'[i].file = fileObj']_vars

\* the handle is on the default name, the configured name is another one
\* and records have been written
C6_Witness ==
    /\ fileObj = "test.log"
    /\ fileName = "b.log"
    /\ Len(fileOut) >= 2

\* the enabled caller fields, each as the claim renders it; a field that
\* is empty takes no place
CallerFields(flags, l) ==
    (IF HasFlag(flags, LOG_FILENAME) /\ l.fileName # <<>>
     THEN <<l.fileName>> ELSE <<>>)
    \o (IF HasFlag(flags, LOG_FUNCNAME)
        THEN <<l.funcName \o <<"(", ")">>>> ELSE <<>>)
    \o (IF HasFlag(flags, LOG_LINENO)
        THEN <<<<"l", "i", "n", "e">> \o Itoa(l.lineNo)>> ELSE <<>>)

RECURSIVE JoinSpace(_)
JoinSpace(fields) ==
    IF fields = <<>> THEN <<>>
    ELSE IF Len(fields) = 1 THEN fields[1]
    ELSE fields[1] \o <<" ">> \o JoinSpace(Tail(fields))

ExpectedCallerGroup(flags, l) ==
    IF CallerFields(flags, l) = <<>> THEN <<>>
    ELSE <<"[">> \o JoinSpace(CallerFields(flags, l)) \o <<"]", " ">>

\* C7 (as claimed): for flags other than LOG_NONE and LOG_ALL the prefix
\* ends with the caller-info group: the enabled fields among file name,
\* function name with "()" and "line<N>", in that order, separated by single
\* spaces, in one bracket pair.
C7_CallerGroup ==
    (probe.state = "out" /\ probe.flags \notin {LOG_NONE, LOG_ALL}) =>
        probe.prefix = TimeLevelPart(probe.flags, probe.log)
                         \o ExpectedCallerGroup(probe.flags, probe.log)

\* the level names, and a name padded with spaces on the right
LevelName(level) ==
    CASE level = DEBUG   -> <<"D", "E", "B", "U", "G">>
      [] level = INFO    -> <<"I", "N", "F", "O">>
      [] level = WARNING -> <<"W", "A", "R", "N", "I", "N", "G">>
      [] level = ERROR   -> <<"E", "R", "R", "O", "R">>
      [] level = FATAL   -> <<"F", "A", "T", "A", "L">>

PadRight(str, w) == str \o [i \in 1..(w - Len(str)) |-> " "]

DigitValue(c) == CHOOSE k \in 0..9 : Digits[k + 1] = c

RECURSIVE DecimalValue(_)
DecimalValue(d) ==
    IF d = <<>> THEN 0
    ELSE 10 * DecimalValue(SubSeq(d, 1, Len(d) - 1)) + DigitValue(d[Len(d)])

\* d is the decimal numeral of n
IsDecimalOf(d, n) ==
    /\ d # <<>>
    /\ \A i \in DOMAIN d : \E k \in 0..9 : Digits[k + 1] = d[i]
    /\ Len(d) > 1 => d[1] # "0"
    /\ DecimalValue(d) = n

\* C8: with flags LOG_ALL the line is "[<time>] [<level name padded to 7>]
\* [<file> <function>() line", the decimal numeral of the line number, "] "
\* and the message.
C8_AllLayout ==
    (probe.state = "out" /\ probe.flags = LOG_ALL) =>
        LET l == probe.log
            head == <<"[">> \o l.time \o <<"]", " ", "[">>
                      \o PadRight(LevelName(l.level), 7)
                      \o <<"]", " ", "[">> \o l.fileName \o <<" ">> \o l.funcName
                      \o <<"(", ")", " ", "l", "i", "n", "e">>
            tail == <<"]", " ">> \o l.msg
            c    == probe.content
        IN  /\ HasPrefix(c, head)
            /\ Len(c) > Len(head) + Len(tail)
            /\ HasSuffix(c, tail)
            /\ IsDecimalOf(SubSeq(c, Len(head) + 1, Len(c) - Len(tail)), l.lineNo)

\* "x" logged at ERROR from Foo on line 42 of b.go has been rendered with
\* flags LOG_ALL
C8_Witness ==
    /\ probe.state = "out"
    /\ probe.flags = LOG_ALL
    /\ probe.log.level = ERROR
    /\ probe.log.lineNo = 42
    /\ probe.log.fileName = <<"b", ".", "g", "o">>
    /\ probe.log.msg = <<"x">>
    /\ probe.content =
         <<"[", "0", "9", ":", "0", "5", "]", " ",
           "[", "E", "R", "R", "O", "R", " ", " ", "]", " ",
           "[", "b", ".", "g", "o", " ", "F", "o", "o", "(", ")", " ",
           "l", "i", "n", "e", "4", "2", "]", " ", "x">>

\* C9: with flags LOG_NONE the prefix is empty and the line is the message.
C9_NoPrefix ==
    (probe.state = "out" /\ probe.flags = LOG_NONE) =>
        (probe.prefix = <<>> /\ probe.content = probe.log.msg)

\* "x" logged at INFO has been rendered with flags LOG_NONE
C9_Witness ==
    /\ probe.state = "out"
    /\ probe.flags = LOG_NONE
    /\ probe.log.level = INFO
    /\ probe.content = <<"x">>

\* C10: once an open has failed it has been reported once, os.OpenFile has
\* run once and the gate is done (no retry), the handle is nil, no record
\* has been written to a file, outPut has not panicked, and the console has
\* every record received so far, in the order of entry.
C10_OpenFailure ==
    openErrs >= 1 =>
        /\ openErrs = 1
        /\ openCalls = 1
        /\ once2 = "done"
        /\ fileObj = NoFile
        /\ fileOut = <<>>
        /\ drainPc # "crashed"
        /\ console \o Pending \o Ids(msg) = enq

\* after a failed open, with the file bit set, records went through the
\* write to the nil handle and are on the console
C10_Witness ==
    /\ openErrs = 1
    /\ FileBit
    /\ Len(console) >= 2
    /\ drainPc = "select"

\* C11 (as claimed): a write to the open file that fails is reported, and
\* outPut goes back to its select for the next record.
C11_WriteFailureReported ==
    [][(/\ drainPc = "file"
        /\ drainPc' # "file"
        /\ FileBit
        /\ fileObj # NoFile
        /\ fileOut' = fileOut) =>
           (writeErrs' = writeErrs + 1 /\ drainPc' = "select")]_vars

\* C12 (as claimed): while the channel is empty and outPut is not handling
\* a record, outPut takes no step.
C12_DrainBlocksWhenEmpty ==
    [][(msg = <<>> /\ drainPc \in {"select", "default"}) =>
           UNCHANGED drainVars]_vars

\* C13 (as claimed): no record is lost when the process stops.  The package
\* has no operation that stops outPut or waits for it, so the process may
\* stop as soon as its emit calls have returned: in such a state every
\* record that entered the channel has been received and written.
C13_NothingLostAtStop ==
    (\A p \in Producers : pc[p] = "idle") =>
        (msg = <<>> /\ drainPc \notin {"term", "file"})

C15_LabelWidth ==
    (probe.state = "out" /\ HasFlag(probe.flags, LOG_LEVEL)) =>
        LET l   == probe.log
            pre == probe.prefix
            off == IF HasFlag(probe.flags, LOG_TIME) THEN Len(l.time) + 3 ELSE 0
        IN  /\ Len(pre) >= off + 10
            /\ pre[off + 1] = "["
            /\ \A i \in (off + 2)..(off + 8) : pre[i] \notin {"[", "]"}
            /\ pre[off + 9] = "]"
            /\ pre[off + 10] = " "
            /\ SubSeq(pre, off + 2, off + 8) = PadRight(LevelName(l.level), 7)

\* a record logged at INFO has been rendered with the level alone
C15_Witness ==
    /\ probe.state = "out"
    /\ probe.flags = LOG_LEVEL
    /\ probe.log.level = INFO
    /\ probe.prefix = <<"[", "I", "N", "F", "O", " ", " ", " ", "]", " ">>

\* the time/level group as the claim composes it: "[<time>]" and/or
\* "[<level>]", joined by one space
TimeLevelGroup(flags, l) ==
    JoinSpace((IF HasFlag(flags, LOG_TIME)
               THEN <<<<"[">> \o l.time \o <<"]">>>> ELSE <<>>)
              \o (IF HasFlag(flags, LOG_LEVEL)
                  THEN <<<<"[">> \o PadRight(LevelName(l.level), 7) \o <<"]">>>>
                  ELSE <<>>))

CallerFlagSet(flags) ==
    \/ HasFlag(flags, LOG_FILENAME)
    \/ HasFlag(flags, LOG_FUNCNAME)
    \/ HasFlag(flags, LOG_LINENO)

\* C16: for flags other than LOG_NONE and LOG_ALL the prefix is the
\* time/level group and a space, then the caller-info group and a space.  A
\* group none of whose flags is set takes no place at all, neither brackets
\* nor space.  The caller-info group is one bracket pair around a non-empty
\* text without brackets; it is also absent when its only flag is
\* LOG_FILENAME and the record has no file name.
C16_GroupLayout ==
    (probe.state = "out" /\ probe.flags \notin {LOG_NONE, LOG_ALL}) =>
        LET l    == probe.log
            pre  == probe.prefix
            tl   == TimeLevelGroup(probe.flags, l)
            tlsp == IF tl = <<>> THEN <<>> ELSE tl \o <<" ">>
            rest == SubSeq(pre, Len(tlsp) + 1, Len(pre))
        IN  /\ HasPrefix(pre, tlsp)
            /\ ~CallerFlagSet(probe.flags) => rest = <<>>
            /\ (CallerFlagSet(probe.flags) /\ rest = <<>>) =>
                 /\ ~HasFlag(probe.flags, LOG_FUNCNAME)
                 /\ ~HasFlag(probe.flags, LOG_LINENO)
                 /\ l.fileName = <<>>
            /\ rest # <<>> =>
                 /\ Len(rest) >= 4
                 /\ rest[1] = "["
                 /\ rest[Len(rest) - 1] = "]"
                 /\ rest[Len(rest)] = " "
                 /\ \A i \in 2..(Len(rest) - 2) : rest[i] \notin {"[", "]"}

\* a record has been rendered with the time and the line number: both
\* groups are present
C16_Witness ==
    /\ probe.state = "out"
    /\ probe.flags = BitOr(LOG_TIME, LOG_LINENO)
    /\ probe.prefix = <<"[", "0", "9", ":", "0", "5", "]", " ",
                        "[", "l", "i", "n", "e", "4", "2", "]", " ">>

\* C17: the channel never holds more than ChanCap records, and the records
\* that entered it and have not been received are those it holds, with any
\* number of producers in a send and with outPut running or never started.
C17_BoundedQueue ==
    /\ Len(msg) <= ChanCap
    /\ Len(enq) - (Len(console) + Len(Pending)) = Len(msg)

\* outPut was never started, the channel is full and a producer is in a
\* send
C17_Witness ==
    /\ drainPc = "off"
    /\ Len(msg) = ChanCap
    /\ \E p \in Producers : Blocked(p)

\* the line of a record under LOG_ALL
AllLine(l) ==
    <<"[">> \o l.time \o <<"]", " ", "[">> \o PadRight(LevelName(l.level), 7)
        \o <<"]", " ", "[">> \o l.fileName \o <<" ">> \o l.funcName
        \o <<"(", ")", " ", "l", "i", "n", "e">> \o Itoa(l.lineNo)
        \o <<"]", " ">> \o l.msg

\* C18: a record is rendered with the value Flags has when outPut receives
\* it, and goes to the file or not by the value OutputType has when outPut
\* comes to the file write; the record itself carries neither, so what they
\* were when it was emitted has no part.
C18_ConfigAtDrain ==
    [][/\ (drainPc = "select" /\ drainPc' = "term") =>
            /\ \A f \in DOMAIN Head(msg) :
                 f \in {"id", "level", "msg", "time", "fileName", "funcName", "lineNo"}
            /\ Flags = LOG_NONE => content' = Head(msg).msg
            /\ Flags = LOG_ALL => content' = AllLine(Head(msg))
       /\ (drainPc = "file" /\ drainPc' = "select") =>
            /\ ~FileBit => fileOut' = fileOut
            /\ fileOut' # fileOut =>
                 (FileBit /\ fileOut' = Append(fileOut, [id |-> log.id, file |-> fileObj]))]_vars

\* the only emit call made opened the file, so the target had the file bit
\* then; the call has returned, and outPut has rendered its record without
\* prefix and comes to the file write with the target ONLY_TERMINAL
C18_Witness ==
    /\ emits = 1
    /\ \A p \in Producers : pc[p] = "idle"
    /\ fileObj # NoFile
    /\ drainPc = "file"
    /\ log.id = 1
    /\ content = log.msg
    /\ OutputType = ONLY_TERMINAL

\* C19: a producer is in its send, and a record is in the channel or in
\* outPut's hands, only when the gate is done; and once the gate is done
\* the file handle does not change, so the handle outPut reads is the final
\* one.
C19_GateBeforeDrain ==
    /\ []((\/ \E p \in Producers : pc[p] = "send"
           \/ enq # <<>>
           \/ drainPc \in {"term", "file"}) => once2 = "done")
    /\ [][once2 = "done" => (once2' = "done" /\ fileObj' = fileObj)]_vars

\* outPut comes to the file write with the first record, the file opened
\* by the gate, while another producer that went through the gate is in its
\* send
C19_Witness ==
    /\ drainPc = "file"
    /\ log.id = 1
    /\ FileBit
    /\ fileObj # NoFile
    /\ openCalls = 1
    /\ \E p \in Producers : pc[p] = "send"

\* the emit calls that have not returned, and the records rendered
InCall == Cardinality({p \in Producers : pc[p] # "idle"})
Rendered == Len(enq) - Len(msg)

\* C20: every emit call is in progress or has put exactly one record in the
\* channel, whatever its level; an emit call returns only by putting a
\* record of its level in the channel; every record that entered the
\* channel is in it or has been rendered, and is printed at most once; the
\* records rendered are never more than the emit calls; and with outPut
\* running the process comes again and again to a state where the records
\* rendered are as many as the emit calls that have returned.
C20_OneRecordPerEmit ==
    /\ [](/\ emits = Len(enq) + InCall
          /\ Rendered = Len(console) + Len(Pending)
          /\ Rendered <= emits
          /\ \A i, j \in DOMAIN console : i # j => console[i] # console[j])
    /\ [][/\ emits' # emits =>
               (emits' = emits + 1 /\ InCall' = InCall + 1)
          /\ \A p \in Producers :
               (pc[p] # "idle" /\ pc'[p] = "idle") =>
                   /\ enq' = Append(enq, Len(enq) + 1)
                   /\ Len(msg') = Len(msg) + 1
                   /\ msg'[Len(msg')].level = arg[p].level]_vars
    /\ []<>(drainPc = "off" \/ Rendered = emits - InCall)

\* a DEBUG record and a FATAL record are in the channel behind a record
\* that has been rendered and printed, all emit calls having returned
C20_Witness ==
    /\ emits = MaxEmits
    /\ InCall = 0
    /\ Len(msg) = 2
    /\ msg[1].level = DEBUG
    /\ msg[2].level = FATAL
    /\ console = <<1>>

=============================================================================
